---- MODULE Spec2Model ----
(***************************************************************************)
(* A model of django-enumfields (enumfields/fields.py): the value coercion *)
(* of an enum-typed model field (to_python), its storage projection        *)
(* (get_prep_value, string-backed and integer-backed), the descriptor that *)
(* coerces on every attribute assignment (CastOnAssignDescriptor), and the *)
(* derivation of the field's choices from include/exclude lists.           *)
(*                                                                         *)
(* Python values are records [kind, n, s]:                                 *)
(*   none            None                                                  *)
(*   int    n        the integer n                                         *)
(*   float  n        the float n/2 (so 2 is 1.0 and 3 is 1.5)              *)
(*   str    s        the string s                                          *)
(*   obj    s        an object that is neither a number nor a string (a    *)
(*                   list, say), whose str() is s                          *)
(*   member s n      the n-th member of the enumeration named s            *)
(***************************************************************************)
EXTENDS Integers, Sequences, FiniteSets, TLC

VARIABLES enum, variant, include, exclude, choices, bound, db, last, shown

vars == <<enum, variant, include, exclude, choices, bound, db, last, shown>>

(* Bounds of the model. *)
MaxInt == 3
MaxList == 2

----------------------------------------------------------------------------
(* Python values *)

NoneV == [kind |-> "none", n |-> 0, s |-> ""]
IntV(i) == [kind |-> "int", n |-> i, s |-> ""]
FloatV(h) == [kind |-> "float", n |-> h, s |-> ""]
StrV(t) == [kind |-> "str", n |-> 0, s |-> t]
ObjV(r) == [kind |-> "obj", n |-> 0, s |-> r]
MemberV(e, i) == [kind |-> "member", n |-> i, s |-> e]

(* The attribute is not in the instance's __dict__. *)
Absent == [kind |-> "absent", n |-> 0, s |-> ""]

(* The enumeration types a field is declared over.  They are supplied by   *)
(* the application; mixin "int" is an IntEnum, whose members compare equal *)
(* to their integer values.  label "" is a member without a label.         *)
Enums ==
    [Color |-> [mixin |-> "none", members |->
        << [name |-> "RED", value |-> IntV(1), label |-> "Reddish"],
           [name |-> "GREEN", value |-> IntV(2), label |-> ""] >>],
     Mixed |-> [mixin |-> "none", members |->
        << [name |-> "A", value |-> IntV(1), label |-> ""],
           [name |-> "B", value |-> StrV("1"), label |-> ""] >>],
     Blank |-> [mixin |-> "none", members |->
        << [name |-> "EMPTY", value |-> StrV(""), label |-> "Nothing"],
           [name |-> "X", value |-> StrV("x"), label |-> ""] >>],
     Ref |-> [mixin |-> "none", members |->
        << [name |-> "P", value |-> StrV("y"), label |-> ""],
           [name |-> "Q", value |-> StrV("Ref.P"), label |-> ""] >>],
     Num |-> [mixin |-> "int", members |->
        << [name |-> "ONE", value |-> IntV(1), label |-> ""],
           [name |-> "TWO", value |-> IntV(2), label |-> "Two"],
           [name |-> "THREE", value |-> IntV(3), label |-> ""] >>]]

EnumNames == DOMAIN Enums

Members(e) == Enums[e].members

(* The members of enumeration e, in definition order: `for m in self.enum`. *)
MemberSeq(e) == [i \in 1..Len(Members(e)) |-> MemberV(e, i)]

MemberSet(e) == {MemberV(e, i) : i \in 1..Len(Members(e))}

AllMembers == UNION {MemberSet(e) : e \in EnumNames}

(* m.value, m.name and getattr(m, 'label', m.name) of a member m. *)
ValueOf(m) == Members(m.s)[m.n].value

NameOf(m) == Members(m.s)[m.n].name

LabelOf(m) ==
    IF Members(m.s)[m.n].label = "" THEN NameOf(m) ELSE Members(m.s)[m.n].label

----------------------------------------------------------------------------
(* str(), == and int() of Python, on the values above *)

Digits == <<"0", "1", "2", "3", "4", "5", "6", "7", "8", "9">>

RECURSIVE NatToStr(_)
NatToStr(k) ==
    IF k < 10 THEN Digits[k + 1] ELSE NatToStr(k \div 10) \o Digits[(k % 10) + 1]

IntToStr(i) == IF i < 0 THEN "-" \o NatToStr(-i) ELSE NatToStr(i)

(* str(v).  A float n/2 prints as "1.0" or "1.5"; a member as "Color.RED". *)
StrOf(v) ==
    CASE v.kind = "none" -> "None"
      [] v.kind = "int" -> IntToStr(v.n)
      [] v.kind = "float" ->
            (IF v.n < 0 THEN "-" ELSE "")
                \o NatToStr((IF v.n < 0 THEN -v.n ELSE v.n) \div 2)
                \o (IF v.n % 2 = 0 THEN ".0" ELSE ".5")
      [] v.kind = "member" -> v.s \o "." \o NameOf(v)
      [] OTHER -> v.s

(* A value that compares as a number: an int, a float, an IntEnum member. *)
IsNum(v) ==
    \/ v.kind \in {"int", "float"}
    \/ v.kind = "member" /\ Enums[v.s].mixin = "int"

(* Twice the number a numeric value stands for. *)
Twice(v) ==
    CASE v.kind = "int" -> 2 * v.n
      [] v.kind = "float" -> v.n
      [] OTHER -> 2 * ValueOf(v).n

(* a == b.  Numbers compare by value across int, float and IntEnum; a      *)
(* plain Enum member equals only itself; a string equals only a string.    *)
PyEq(a, b) == IF IsNum(a) /\ IsNum(b) THEN Twice(a) = Twice(b) ELSE a = b

(* The outcome of a call: a returned value or a raised exception. *)
Ok(v) == [status |-> "ok", val |-> v, exc |-> "", code |-> "", enum |-> ""]

Raise(x, c, v, e) == [status |-> "raise", val |-> v, exc |-> x, code |-> c, enum |-> e]

NoCall == [op |-> "none", arg |-> NoneV, out |-> Ok(NoneV)]

RECURSIVE LStrip(_)
LStrip(t) ==
    IF Len(t) > 0 /\ SubSeq(t, 1, 1) = " " THEN LStrip(SubSeq(t, 2, Len(t))) ELSE t

RECURSIVE RStrip(_)
RStrip(t) ==
    IF Len(t) > 0 /\ SubSeq(t, Len(t), Len(t)) = " "
    THEN RStrip(SubSeq(t, 1, Len(t) - 1)) ELSE t

IsDigits(t) ==
    /\ Len(t) > 0
    /\ \A i \in 1..Len(t) : \E d \in 1..10 : SubSeq(t, i, i) = Digits[d]

RECURSIVE DigitsToNat(_)
DigitsToNat(t) ==
    IF Len(t) = 0 THEN 0
    ELSE 10 * DigitsToNat(SubSeq(t, 1, Len(t) - 1))
            + (CHOOSE d \in 0..9 : Digits[d + 1] = SubSeq(t, Len(t), Len(t)))

(* int(v): an int is itself, a float is truncated towards zero, a string   *)
(* is parsed (blanks stripped, an optional sign, decimal digits) or raises *)
(* ValueError, any other object raises TypeError.                          *)
PyInt(v) ==
    CASE v.kind = "int" -> Ok(IntV(v.n))
      [] v.kind = "float" ->
            Ok(IntV(IF v.n < 0 THEN -((-v.n) \div 2) ELSE v.n \div 2))
      [] v.kind = "str" ->
            LET t == RStrip(LStrip(v.s))
                signed == Len(t) > 0 /\ SubSeq(t, 1, 1) \in {"+", "-"}
                body == IF signed THEN SubSeq(t, 2, Len(t)) ELSE t
            IN  IF IsDigits(body)
                THEN Ok(IntV(IF signed /\ SubSeq(t, 1, 1) = "-"
                             THEN -DigitsToNat(body) ELSE DigitsToNat(body)))
                ELSE Raise("ValueError", "", v, "")
      [] OTHER -> Raise("TypeError", "", v, "")

----------------------------------------------------------------------------
(* EnumFieldMixin.to_python: Value Coercion *)

(* isinstance(value, self.enum) *)
IsInstance(value, e) == value.kind = "member" /\ value.s = e

(* The tests of the loop body, for one member m:                           *)
(*   value == m                     equality with the member               *)
(*   value == m.value               equality with its stored value         *)
(*   str(value) == str(m.value)     string form against the stored value   *)
(*   str(value) == str(m)           string form against the member         *)
EqMember(value, m) == PyEq(value, m)

EqValue(value, m) == PyEq(value, ValueOf(m))

StrEqValue(value, m) == StrOf(value) = StrOf(ValueOf(m))

StrEqMember(value, m) == StrOf(value) = StrOf(m)

InvalidEnumValue(value, e) == Raise("ValidationError", "invalid_enum_value", value, e)

(* `for m in self.enum`, from the i-th member on; the raise after the loop. *)
RECURSIVE to_python_loop(_, _, _)
to_python_loop(e, value, i) ==
    IF i > Len(Members(e)) THEN InvalidEnumValue(value, e)
    ELSE LET m == MemberV(e, i)
         IN  IF EqMember(value, m) THEN Ok(m)
             ELSE IF \/ EqValue(value, m)
                     \/ StrEqValue(value, m)
                     \/ StrEqMember(value, m)
                  THEN Ok(m)
                  ELSE to_python_loop(e, value, i + 1)

(* to_python, returning None where the code raises. *)
to_python_silent(e, value) ==
    IF value = NoneV \/ PyEq(value, StrV("")) THEN Ok(NoneV)
    ELSE IF IsInstance(value, e) THEN Ok(value)
    ELSE LET r == to_python_loop(e, value, 1)
         IN  IF r.status = "ok" THEN r ELSE Ok(NoneV)

to_python(e, value) ==
    IF value = NoneV \/ PyEq(value, StrV("")) THEN Ok(NoneV)
    ELSE IF IsInstance(value, e) THEN Ok(value)
    ELSE to_python_loop(e, value, 1)

(* from_db_value *)
from_db_value(e, value) == to_python(e, value)

----------------------------------------------------------------------------
(* get_prep_value: Storage Projection *)

(* self.enum(value): the enum type's lookup of a member by its value,      *)
(* which raises ValueError when no member has that value.                  *)
EnumCall(e, value) ==
    LET hits == {i \in 1..Len(Members(e)) : PyEq(ValueOf(MemberV(e, i)), value)}
    IN  IF hits = {} THEN Raise("ValueError", "", value, e)
        ELSE Ok(MemberV(e, CHOOSE i \in hits : \A j \in hits : i <= j))

(* r.value of the outcome r of a call: the exception if r raised, an       *)
(* AttributeError if r is None.                                            *)
DotValue(r) ==
    IF r.status = "raise" THEN r
    ELSE IF r.val.kind = "member" THEN Ok(ValueOf(r.val))
    ELSE Raise("AttributeError", "", r.val, "")

(* The string-backed variant: EnumFieldMixin.get_prep_value. *)
EnumFieldMixin_get_prep_value(e, value) ==
    IF value = NoneV THEN Ok(NoneV)
    ELSE IF IsInstance(value, e) THEN Ok(ValueOf(value))
    ELSE DotValue(EnumCall(e, value))

(* The integer-backed variants: EnumIntegerFieldMixin.get_prep_value.  Only *)
(* a ValueError of int(value) is caught.                                    *)
EnumIntegerFieldMixin_get_prep_value(e, value) ==
    IF value = NoneV THEN Ok(NoneV)
    ELSE IF value.kind = "member" THEN Ok(ValueOf(value))
    ELSE LET r == PyInt(value)
         IN  IF r.status = "raise" /\ r.exc = "ValueError"
             THEN DotValue(to_python(e, value))
             ELSE r

(* The field classes: EnumField is string-backed, the Enum*IntegerField    *)
(* classes are integer-backed.                                             *)
get_prep_value(v, e, value) ==
    IF v = "int" THEN EnumIntegerFieldMixin_get_prep_value(e, value)
    ELSE EnumFieldMixin_get_prep_value(e, value)

----------------------------------------------------------------------------
(* CastOnAssignDescriptor: Assignment Interception *)

(* __set__ storing the value as given. *)
Descriptor_set_raw(e, cur, value) == [bound |-> value, out |-> Ok(NoneV)]

(* __set__ clearing the attribute when the coercion fails. *)
Descriptor_set_clear(e, cur, value) ==
    LET r == to_python(e, value)
    IN  IF r.status = "raise" THEN [bound |-> NoneV, out |-> r]
        ELSE [bound |-> r.val, out |-> Ok(NoneV)]

(* __set__(obj, value): the attribute after the call, given that it was    *)
(* cur before, and the call's outcome.  to_python raises before the        *)
(* instance's __dict__ is written.                                         *)
Descriptor_set(e, cur, value) ==
    LET r == to_python(e, value)
    IN  IF r.status = "raise" THEN [bound |-> cur, out |-> r]
        ELSE [bound |-> r.val, out |-> Ok(NoneV)]

(* __get__(obj): the attribute if it is in the instance's __dict__; else   *)
(* refresh_from_db, which converts the stored column dbv by from_db_value  *)
(* and assigns it to the attribute (through __set__), and the attribute    *)
(* then.                                                                   *)
Descriptor_get(e, cur, dbv) ==
    IF cur # Absent THEN [bound |-> cur, out |-> Ok(cur)]
    ELSE LET loaded == from_db_value(e, dbv)
         IN  IF loaded.status = "raise" THEN [bound |-> cur, out |-> loaded]
             ELSE LET w == Descriptor_set(e, cur, loaded.val)
                  IN  IF w.out.status = "raise" THEN w
                      ELSE [bound |-> w.bound, out |-> Ok(w.bound)]

----------------------------------------------------------------------------
(* EnumFieldMixin.__init__ and get_choices: Choice Enumeration *)

(* The include and exclude options: not given (None), or a list of members. *)
NoList == [given |-> FALSE, items |-> <<>>]

GivenList(q) == [given |-> TRUE, items |-> q]

(* The truth value of an option in `x or y`: None and the empty list are   *)
(* both false.                                                             *)
Truthy(l) == l.given /\ Len(l.items) > 0

(* e in q *)
InList(x, q) == \E i \in 1..Len(q) : PyEq(q[i], x)

(* (e, getattr(e, 'label', e.name)) *)
ChoiceOf(m) == <<m, LabelOf(m)>>

(* tuple(... for e in incl if e not in excl) *)
RECURSIVE ChoicesFrom(_, _)
ChoicesFrom(incl, excl) ==
    IF incl = <<>> THEN <<>>
    ELSE (IF InList(Head(incl), excl) THEN <<>> ELSE <<ChoiceOf(Head(incl))>>)
            \o ChoicesFrom(Tail(incl), excl)

(* __init__ keeping the members that are named in the include list even    *)
(* when they are excluded.                                                 *)
EnumFieldMixin_init_keep(e, inc, exc) ==
    IF Truthy(inc) THEN ChoicesFrom(inc.items, <<>>)
    ELSE ChoicesFrom(MemberSeq(e), IF Truthy(exc) THEN exc.items ELSE <<>>)

(* __init__ labelling every choice with the member's name. *)
EnumFieldMixin_init_names(e, inc, exc) ==
    LET all == ChoicesFrom(IF Truthy(inc) THEN inc.items ELSE MemberSeq(e),
                           IF Truthy(exc) THEN exc.items ELSE <<>>)
    IN  [i \in 1..Len(all) |-> <<all[i][1], NameOf(all[i][1])>>]

(* options['choices'] as __init__ derives it when no choices are passed. *)
EnumFieldMixin_init(e, inc, exc) ==
    LET include_enums == IF Truthy(inc) THEN inc.items ELSE MemberSeq(e)
        exclude_enums == IF Truthy(exc) THEN exc.items ELSE <<>>
    IN  ChoicesFrom(include_enums, exclude_enums)

BLANK_CHOICE_DASH == << <<StrV(""), "---------">> >>

(* get_choices: the base field's choices (the blank choice first when      *)
(* include_blank; no enum member equals '' or None, so a blank is never    *)
(* taken as defined), each member replaced by its stored value.            *)
get_choices(chs, include_blank) ==
    (IF include_blank THEN BLANK_CHOICE_DASH ELSE <<>>)
        \o [i \in 1..Len(chs) |->
                <<(IF chs[i][1].kind = "member" THEN ValueOf(chs[i][1]) ELSE chs[i][1]),
                  chs[i][2]>>]

----------------------------------------------------------------------------
(* The state machine: one field, one model instance, its database column *)

(* The candidate values of an assignment or a call. *)
Candidates ==
    {NoneV, StrV(""), StrV(" 1"), StrV("x"), StrV("y"), StrV("zz"), StrV("1.0"),
     FloatV(2), FloatV(3), ObjV("1"), ObjV("[1]")}
        \cup {IntV(i) : i \in -1..MaxInt}
        \cup {StrV(IntToStr(i)) : i \in -1..MaxInt}
        \cup {StrV(StrOf(m)) : m \in AllMembers}
        \cup AllMembers

(* The lists of at most MaxList members of e. *)
ListsOf(e) == UNION {[1..k -> MemberSet(e)] : k \in 0..MaxList}

Options(e) == {NoList} \cup {GivenList(q) : q \in ListsOf(e)}

(* An integer-backed field is declared over an enumeration of integers. *)
Variants(e) ==
    IF \A m \in MemberSet(e) : ValueOf(m).kind = "int" THEN {"str", "int"} ELSE {"str"}

(* What the column holds after v is written to it: a character column      *)
(* (EnumField is a CharField) holds the text of v.                         *)
Column(v, value) ==
    IF v = "str" /\ value # NoneV THEN StrV(StrOf(value)) ELSE value

(* The rows a save of this field can have written. *)
Rows(v, e) ==
    {NoneV} \cup {Column(v, get_prep_value(v, e, m).val) : m \in MemberSet(e)}

(* An instance loaded with the field deferred: the attribute is not yet in *)
(* its __dict__, the row is in the database.                               *)
Init ==
    /\ enum \in EnumNames
    /\ variant \in Variants(enum)
    /\ include = NoList
    /\ exclude = NoList
    /\ choices = EnumFieldMixin_init(enum, include, exclude)
    /\ bound = Absent
    /\ db \in Rows(variant, enum)
    /\ last = NoCall
    /\ shown = <<>>

(* A field constructed with include and exclude options. *)
InitChoices ==
    /\ enum \in EnumNames
    /\ variant \in Variants(enum)
    /\ include \in Options(enum)
    /\ exclude \in Options(enum)
    /\ choices = EnumFieldMixin_init(enum, include, exclude)
    /\ bound = Absent
    /\ db = NoneV
    /\ last = NoCall
    /\ shown = <<>>

(* instance.attr = value *)
Assign(value) ==
    LET w == Descriptor_set(enum, bound, value)
    IN  /\ bound' = w.bound
        /\ last' = [op |-> "set", arg |-> value, out |-> w.out]
        /\ UNCHANGED <<enum, variant, include, exclude, choices, db, shown>>

(* instance.attr *)
Read ==
    LET w == Descriptor_get(enum, bound, db)
    IN  /\ bound' = w.bound
        /\ last' = [op |-> "get", arg |-> NoneV, out |-> w.out]
        /\ UNCHANGED <<enum, variant, include, exclude, choices, db, shown>>

(* instance.save(): the column takes get_prep_value of the attribute. *)
Save ==
    /\ bound # Absent
    /\ LET r == get_prep_value(variant, enum, bound)
       IN  /\ db' = IF r.status = "ok" THEN Column(variant, r.val) ELSE db
           /\ last' = [op |-> "save", arg |-> bound, out |-> r]
    /\ UNCHANGED <<enum, variant, include, exclude, choices, bound, shown>>

(* field.to_python(value), as the validation layer calls it. *)
Clean(value) ==
    /\ last' = [op |-> "to_python", arg |-> value, out |-> to_python(enum, value)]
    /\ UNCHANGED <<enum, variant, include, exclude, choices, bound, db, shown>>

(* field.get_prep_value(value), as a query lookup calls it. *)
Prep(value) ==
    /\ last' = [op |-> "get_prep_value", arg |-> value,
                out |-> get_prep_value(variant, enum, value)]
    /\ UNCHANGED <<enum, variant, include, exclude, choices, bound, db, shown>>

(* field.get_choices(include_blank) *)
GetChoices(include_blank) ==
    /\ shown' = get_choices(choices, include_blank)
    /\ last' = [op |-> "get_choices", arg |-> NoneV, out |-> Ok(NoneV)]
    /\ UNCHANGED <<enum, variant, include, exclude, choices, bound, db>>

Next ==
    \/ \E value \in Candidates : Assign(value)
    \/ Read
    \/ Save
    \/ \E value \in Candidates : Clean(value)
    \/ \E value \in Candidates : Prep(value)

NextChoices == \E include_blank \in BOOLEAN : GetChoices(include_blank)

Spec == Init /\ [][Next]_vars

SpecChoices == InitChoices /\ [][NextChoices]_vars

----------------------------------------------------------------------------
(* Properties *)

(* The members named by a choice sequence. *)
ChoiceMembers(chs) == {chs[i][1] : i \in 1..Len(chs)}

(* C1: after any sequence of assignments through the descriptor, failed or *)
(* not, the attribute in memory is None or a member of the field's         *)
(* enumeration, never a raw primitive.                                     *)
C1_BoundIsMemberOrNone ==
    bound # Absent => (bound = NoneV \/ bound \in MemberSet(enum))

(* A raw primitive was assigned and the attribute holds a member. *)
C1_Witness ==
    /\ last.op = "set"
    /\ last.arg.kind \in {"int", "str"}
    /\ last.out.status = "ok"
    /\ bound \in MemberSet(enum)

(* C2: for every member m, assigning m's stored value, or its string form, *)
(* and reading the attribute next yields m; and over Color {RED=1,         *)
(* GREEN=2} assigning 3 raises the invalid-value error.                    *)
C2_AssignThenRead ==
    [][/\ \A m \in MemberSet(enum) :
            (/\ last.op = "set"
             /\ last.arg \in {ValueOf(m), StrV(StrOf(ValueOf(m)))}
             /\ last'.op = "get")
                => last'.out = Ok(m)
       /\ (enum = "Color" /\ last'.op = "set" /\ last'.arg = IntV(3))
            => last'.out = InvalidEnumValue(IntV(3), "Color")]_vars

(* C3: for every member m, to_python of m's stored value, which is what    *)
(* get_prep_value(m) returns, is m.                                        *)
C3_CoerceStoredValue ==
    \A m \in MemberSet(enum) :
        (/\ last.op = "to_python"
         /\ \/ last.arg = ValueOf(m)
            \/ Ok(last.arg) = get_prep_value(variant, enum, m))
            => last.out = Ok(m)

(* A candidate that is not None, not empty, not a member of e, equal to no *)
(* member and to no stored value, and whose string form is that of no      *)
(* member and of no stored value.                                          *)
Unrelated(e, v) ==
    /\ v.kind # "none"
    /\ ~(v.kind = "str" /\ v.s = "")
    /\ v \notin MemberSet(e)
    /\ \A m \in MemberSet(e) :
        /\ ~PyEq(v, m)
        /\ ~PyEq(v, ValueOf(m))
        /\ StrOf(v) \notin {StrOf(m), StrOf(ValueOf(m))}

(* C4: to_python of an unrelated candidate raises ValidationError with     *)
(* code invalid_enum_value, carrying the candidate and the enumeration.    *)
C4_UnrelatedFails ==
    (last.op = "to_python" /\ Unrelated(enum, last.arg))
        => /\ last.out.status = "raise"
           /\ last.out.exc = "ValidationError"
           /\ last.out.code = "invalid_enum_value"
           /\ last.out.val = last.arg
           /\ last.out.enum = enum

(* to_python was called on an unrelated integer. *)
C4_Witness ==
    /\ last.op = "to_python"
    /\ last.arg.kind = "int"
    /\ Unrelated(enum, last.arg)

(* C5: for every raw primitive that to_python resolves to a member m,      *)
(* get_prep_value returns m's stored value, in both field variants.        *)
C5_PrepOfCoercible ==
    \A m \in MemberSet(enum) :
        (/\ last.op = "get_prep_value"
         /\ last.arg.kind \in {"int", "float", "str"}
         /\ to_python(enum, last.arg) = Ok(m))
            => last.out = Ok(ValueOf(m))

(* The choices of the members of the list q that are not in the list x, in *)
(* the order of q, each with its label or else its name.                   *)
Kept(q, x) ==
    LET keep(m) == \A i \in 1..Len(x) : x[i] # m
        left == SelectSeq(q, keep)
    IN  [i \in 1..Len(left) |->
            LET d == Enums[left[i].s].members[left[i].n]
            IN  <<left[i], IF d.label = "" THEN d.name ELSE d.label>>]

(* C6 as stated: the choices are the members of the include list (all      *)
(* members when no include list is given) that are not in the exclude      *)
(* list, in that order, each with its label or else its name.              *)
C6_ChoicesOfGivenInclude ==
    choices = Kept(IF include.given THEN include.items ELSE MemberSeq(enum),
                   exclude.items)

(* C6 as amended: the same, with all members of the enumeration taken also *)
(* when the include list given is empty.                                   *)
C6_Choices ==
    choices = Kept(IF include.given /\ include.items # <<>>
                   THEN include.items ELSE MemberSeq(enum),
                   exclude.items)

(* include = [a, b] and exclude = [b] gave exactly a, and a has a label. *)
C6_Witness ==
    /\ include.given /\ exclude.given
    /\ Len(include.items) = 2 /\ Len(exclude.items) = 1
    /\ include.items[1] # include.items[2]
    /\ include.items[2] = exclude.items[1]
    /\ Len(choices) = 1
    /\ choices[1][1] = include.items[1]
    /\ choices[1][2] # NameOf(include.items[1])

(* C7 as stated: a member named in both the include list and the exclude   *)
(* list is kept in the choices.                                            *)
C7_IncludeWins ==
    \A m \in MemberSet(enum) :
        (InList(m, include.items) /\ InList(m, exclude.items))
            => m \in ChoiceMembers(choices)

(* C7 as amended: the choices are the members not excluded, and exclusion  *)
(* takes precedence: a member named in the exclude list is left out, also  *)
(* when the include list names it; a member not excluded is in the choices *)
(* if the include list names it or is absent or empty.                     *)
C7_ExcludeWins ==
    \A m \in MemberSet(enum) :
        m \in ChoiceMembers(choices)
            <=> /\ ~InList(m, exclude.items)
                /\ include.items # <<>> => InList(m, include.items)

(* A member is named in both lists, with another member included. *)
C7_Witness ==
    \E m \in MemberSet(enum) :
        /\ InList(m, include.items)
        /\ InList(m, exclude.items)
        /\ m \notin ChoiceMembers(choices)
        /\ choices # <<>>

(* The first member, in definition order, that passes a test. *)
First(hits) == CHOOSE i \in hits : \A j \in hits : i <= j

(* Value Coercion with each rule tried over the whole enumeration before   *)
(* the next rule is.                                                       *)
ByPriority(e, v) ==
    LET idx == 1..Len(Members(e))
        b == {i \in idx : PyEq(v, MemberV(e, i))}
        c == {i \in idx : PyEq(v, ValueOf(MemberV(e, i)))}
        d == {i \in idx : StrOf(v) = StrOf(ValueOf(MemberV(e, i)))}
        f == {i \in idx : StrOf(v) = StrOf(MemberV(e, i))}
    IN  IF v = NoneV \/ PyEq(v, StrV("")) THEN Ok(NoneV)
        ELSE IF IsInstance(v, e) THEN Ok(v)
        ELSE IF b # {} THEN Ok(MemberV(e, First(b)))
        ELSE IF c # {} THEN Ok(MemberV(e, First(c)))
        ELSE IF d # {} THEN Ok(MemberV(e, First(d)))
        ELSE IF f # {} THEN Ok(MemberV(e, First(f)))
        ELSE InvalidEnumValue(v, e)

(* C8: to_python returns the member that matches under the earliest rule   *)
(* of (a) identity, (b) equality with a member, (c) equality with a stored *)
(* value, (d) string form of a stored value, (e) string form of a member,  *)
(* whatever the members' definition order.                                 *)
C8_PriorityOrder ==
    last.op = "to_python" => last.out = ByPriority(enum, last.arg)

(* C9: the integer-backed get_prep_value of a value that is not None and   *)
(* not a member returns int(value) whenever int(value) succeeds, and the   *)
(* stored value of to_python(value) whenever int(value) fails, however it  *)
(* fails.                                                                  *)
C9_IntPrepFallsBack ==
    (/\ last.op = "get_prep_value"
     /\ variant = "int"
     /\ last.arg.kind \notin {"none", "member"})
        => last.out = IF PyInt(last.arg).status = "ok" THEN PyInt(last.arg)
                      ELSE DotValue(to_python(enum, last.arg))

(* C10: an assignment that fails, fails with the invalid-value error and   *)
(* leaves the attribute as it was; a read of an attribute that is present  *)
(* returns it and leaves it.                                               *)
C10_FailedAssignKeepsBound ==
    [][/\ (last'.op = "set" /\ last'.out.status = "raise")
            => /\ bound' = bound
               /\ last'.out = InvalidEnumValue(last'.arg, enum)
       /\ (last'.op = "get" /\ bound # Absent)
            => /\ bound' = bound
               /\ last'.out = Ok(bound)]_vars

(* An assignment failed on an attribute that holds a member. *)
C10_Witness ==
    /\ last.op = "set"
    /\ last.out.status = "raise"
    /\ bound \in MemberSet(enum)

====
